---------------------------- MODULE Spec2Model ----------------------------
(***************************************************************************)
(* The coordinator of the replicated-worker task market                    *)
(* (services/coordinator/app.py): the task table, the submission table,    *)
(* the worker table and the score table, and the request handlers and the  *)
(* background sweep that act on them.                                      *)
(*                                                                         *)
(* Representation.                                                         *)
(*   - tasks, workers and scores are functions whose DOMAIN is the set of  *)
(*     primary keys present in the table.                                  *)
(*   - subs[t] is the sequence of the Submission rows with task_id = t, in *)
(*     rowid (insertion) order, the order the unordered SELECT of          *)
(*     submit_result yields them in.  Submission.created_at is read only   *)
(*     by get_task and is left out.                                        *)
(*   - SQL NULL / Python None is Null for strings and NoTime for instants. *)
(*   - a confidence is an integer number of tenths; a mean is compared by  *)
(*     cross-multiplication.                                               *)
(*   - Task.text is payload only and is left out.                          *)
(***************************************************************************)
EXTENDS Integers, Sequences, FiniteSets, TLC

\* ---------------------------------------------------------------- tunables
HEARTBEAT_TTL_SECONDS == 75
LEASE_SECONDS == 50
MAX_ATTEMPTS_DEFAULT == 5
REQUIRED_SUBMISSIONS_DEFAULT == 3

\* ------------------------------------------------------------------ bounds
MaxTasks == 2
MaxLifecycleTasks == 1
MaxWorkers == 2
MaxTicks == 4
MaxClaims == 3
MaxSubReqs == 2
MaxDispatchTicks == 2

\* The clock advances in steps of half a lease.
TickSeconds == LEASE_SECONDS \div 2

TaskIds == 1..MaxTasks
LifecycleTaskIds == 1..MaxLifecycleTasks
WorkerIds == 1..MaxWorkers
SubSlots == 1..MaxSubReqs

Null == "<null>"
NoTime == -1
NoTask == 0
NoWorker == 0

\* Inputs of the requests.
RequiredInputs == {1, 2}
MaxAttemptsInputs == {1, 2}
LabelInputs == {"", "positive", "negative"}
ConfInputs == {5, 9}
TypeInputs == {Null, "", "vision"}
CapsInputs == {Null, "[]", "[\"text\"]", "[\"vision\",\"text\"]"}
RegistryCapsInputs == {Null, "[\"text\"]"}

VARIABLES
    now,        \* the value now_utc() returns
    tasks,      \* table Task
    subs,       \* table Submission, per task
    workers,    \* table Worker
    scores,     \* table WorkerScore
    resp,       \* the response of the last completed request
    finalLog,   \* history: per task, the finalization steps run on it
    grants,     \* history: per task, the claims next_task returned
    held,       \* history: per task, the worker and the end of the lease its last claim granted
    requeues,   \* history: per task, the moves from assigned to queued
    nextReqs,   \* next_task requests in flight, per worker
    subReqs,    \* submit_result requests in flight, per slot
    reapReq     \* the iteration of the sweeper thread in flight

store == <<tasks, subs, workers, scores>>
history == <<finalLog, grants, held, requeues>>
inflight == <<nextReqs, subReqs, reapReq>>
vars == <<now, tasks, subs, workers, scores, resp, finalLog, grants, held, requeues,
          nextReqs, subReqs, reapReq>>

\* ----------------------------------------------------------------- helpers

\* Python truthiness of an Optional[str].
Truthy(s) == s /= Null /\ s /= ""

\* `v or d` for an Optional[int].
OrDefault(v, d) == IF v = 0 THEN d ELSE v

RECURSIVE SumOver(_, _)
SumOver(f, S) ==
    IF S = {} THEN 0
    ELSE LET x == CHOOSE y \in S : TRUE IN f[x] + SumOver(f, S \ {x})

Idle == [pc |-> "idle"]

\* No claim of the task yet.
NoLease == [worker |-> NoWorker, until |-> NoTime]

\* A response body: the keys a handler does not send hold their defaults.
OkResp == [code |-> 200, task_id |-> NoTask, duplicate |-> FALSE, requeued |-> 0]

Init ==
    /\ now = 0
    /\ tasks = <<>>
    /\ subs = [t \in TaskIds |-> <<>>]
    /\ workers = <<>>
    /\ scores = <<>>
    /\ resp = OkResp
    /\ finalLog = [t \in TaskIds |-> <<>>]
    /\ grants = [t \in TaskIds |-> 0]
    /\ held = [t \in TaskIds |-> NoLease]
    /\ requeues = [t \in TaskIds |-> 0]
    /\ nextReqs = [w \in WorkerIds |-> Idle]
    /\ subReqs = [k \in SubSlots |-> Idle]
    /\ reapReq = Idle

\* ------------------------------------------------------------------- clock
Tick ==
    /\ now + TickSeconds <= MaxTicks * TickSeconds
    /\ now' = now + TickSeconds
    /\ UNCHANGED <<store, resp, history, inflight>>

\* ----------------------------------------------------------------- workers

\* UpsertWorker that creates the row without last_seen.
UpsertWorkerInsertsUnseen(ws, wid, caps, t) ==
    IF wid \notin DOMAIN ws
    THEN [x \in DOMAIN ws \cup {wid} |->
            IF x = wid
            THEN [status |-> "active", last_seen |-> NoTime, capabilities_json |-> caps]
            ELSE ws[x]]
    ELSE [ws EXCEPT ![wid] =
            [status |-> "active", last_seen |-> t,
             capabilities_json |-> IF Truthy(caps) THEN caps ELSE @.capabilities_json]]

\* register_worker and heartbeat: the upsert of the Worker row.
UpsertWorker(ws, wid, caps, t) ==
    IF wid \notin DOMAIN ws
    THEN [x \in DOMAIN ws \cup {wid} |->
            IF x = wid
            THEN [status |-> "active", last_seen |-> t, capabilities_json |-> caps]
            ELSE ws[x]]
    ELSE [ws EXCEPT ![wid] =
            [status |-> "active", last_seen |-> t,
             capabilities_json |-> IF Truthy(caps) THEN caps ELSE @.capabilities_json]]

register_worker(wid, caps) ==
    /\ workers' = UpsertWorker(workers, wid, caps, now)
    /\ resp' = OkResp
    /\ UNCHANGED <<now, tasks, subs, scores, history, inflight>>

\* ExtendLeases for the leases that have not run out only.
ExtendLiveLeases(ts, wid, t) ==
    [x \in DOMAIN ts |->
        IF ts[x].status = "assigned" /\ ts[x].reserved_by = wid /\ ts[x].lease_expires_at > t
        THEN [ts[x] EXCEPT !.lease_expires_at = t + LEASE_SECONDS]
        ELSE ts[x]]

\* The lease extension of heartbeat: every task assigned to wid.
ExtendLeases(ts, wid, t) ==
    [x \in DOMAIN ts |->
        IF ts[x].status = "assigned" /\ ts[x].reserved_by = wid
        THEN [ts[x] EXCEPT !.lease_expires_at = t + LEASE_SECONDS]
        ELSE ts[x]]

heartbeat(wid) ==
    /\ workers' = UpsertWorker(workers, wid, Null, now)
    /\ tasks' = ExtendLeases(tasks, wid, now)
    /\ resp' = OkResp
    /\ UNCHANGED <<now, subs, scores, history, inflight>>

MarkStale(ws, t) ==
    [x \in DOMAIN ws |->
        IF /\ ws[x].last_seen /= NoTime
           /\ ws[x].last_seen < t - HEARTBEAT_TTL_SECONDS
           /\ ws[x].status /= "stale"
        THEN [ws[x] EXCEPT !.status = "stale"]
        ELSE ws[x]]

\* ------------------------------------------------------------------- tasks

NewTask(type, required, maxAttempts, t) ==
    [type |-> type,
     status |-> "queued",
     final_label |-> Null,
     required_submissions |-> OrDefault(required, REQUIRED_SUBMISSIONS_DEFAULT),
     created_at |-> t,
     reserved_by |-> NoWorker,
     lease_expires_at |-> NoTime,
     attempts |-> 0,
     max_attempts |-> OrDefault(maxAttempts, MAX_ATTEMPTS_DEFAULT),
     error_message |-> Null]

\* uuid4 yields an id no row has; a later task may get a smaller id.
create_task(id, type, required, maxAttempts) ==
    /\ id \notin DOMAIN tasks
    /\ tasks' = [x \in DOMAIN tasks \cup {id} |->
                    IF x = id THEN NewTask(type, required, maxAttempts, now) ELSE tasks[x]]
    /\ resp' = [OkResp EXCEPT !.task_id = id]
    /\ UNCHANGED <<now, subs, workers, scores, history, inflight>>

\* -------------------------------------------------------------- dispatcher

Unknown == [known |-> FALSE, tags |-> {}]
Known(S) == [known |-> TRUE, tags |-> S]

\* WorkerCaps for a dispatcher that does not read the worker row.
WorkerCapsUnread(ws, wid) == Unknown

\* Before with the creation time left out of the order.
BeforeById(ts, a, b) == a < b

\* set(json.loads(capabilities_json) or []), None when the text is no JSON.
ParseCaps(json) ==
    CASE json = "[]" -> Known({})
      [] json = "null" -> Known({})
      [] json = "[\"text\"]" -> Known({"text"})
      [] json = "[\"vision\"]" -> Known({"vision"})
      [] json = "[\"vision\",\"text\"]" -> Known({"vision", "text"})
      [] OTHER -> Unknown

WorkerCaps(ws, wid) ==
    IF wid \in DOMAIN ws /\ Truthy(ws[wid].capabilities_json)
    THEN ParseCaps(ws[wid].capabilities_json)
    ELSE Unknown

\* ORDER BY created_at ASC, id ASC
Before(ts, a, b) ==
    \/ ts[a].created_at < ts[b].created_at
    \/ ts[a].created_at = ts[b].created_at /\ a < b

RECURSIVE SortTasks(_, _)
SortTasks(ts, S) ==
    IF S = {} THEN <<>>
    ELSE LET m == CHOOSE x \in S : \A y \in S \ {x} : Before(ts, x, y)
         IN <<m>> \o SortTasks(ts, S \ {m})

Candidates(ts) ==
    SortTasks(ts, {t \in DOMAIN ts : ts[t].status \in {"queued", "assigned"}})

HasSubmission(ss, tid, wid) == \E i \in 1..Len(ss[tid]) : ss[tid][i].worker_id = wid

\* The three `continue` tests of the loop of next_task, on the row as it was read.
Skipped(row, tid, ss, wid, caps, t) ==
    \/ row.status = "finalized" \/ row.status = "failed"
    \/ Truthy(row.type) /\ caps.known /\ row.type \notin caps.tags
    \/ row.status = "assigned" /\ row.lease_expires_at /= NoTime /\ row.lease_expires_at > t
    \/ HasSubmission(ss, tid, wid)

RECURSIVE PickTask(_, _, _, _, _, _)
PickTask(order, snap, ss, wid, caps, t) ==
    IF order = <<>> THEN NoTask
    ELSE IF Skipped(snap[Head(order)], Head(order), ss, wid, caps, t)
         THEN PickTask(Tail(order), snap, ss, wid, caps, t)
         ELSE Head(order)

\* The UPDATE the claim flushes: the columns whose value differs from the row as
\* it was read (snapRow), written onto the row as it is now (row).
ClaimRow(row, snapRow, wid, t) ==
    [row EXCEPT
        !.status = IF snapRow.status /= "assigned" THEN "assigned" ELSE @,
        !.reserved_by = IF snapRow.reserved_by /= wid THEN wid ELSE @,
        !.lease_expires_at =
            IF snapRow.lease_expires_at /= t + LEASE_SECONDS THEN t + LEASE_SECONDS ELSE @,
        !.attempts = snapRow.attempts + 1]

\* The lease a claim at time t grants.
Granted(wid, t) == [worker |-> wid, until |-> t + LEASE_SECONDS]

\* The model stops handing out a task after MaxClaims claims of it.
ClaimBudget(tid) == tasks[tid].attempts < MaxClaims /\ grants[tid] < MaxClaims

next_task(wid) ==
    LET caps == WorkerCaps(workers, wid)
        pick == PickTask(Candidates(tasks), tasks, subs, wid, caps, now)
    IN  IF pick = NoTask
        THEN /\ resp' = OkResp
             /\ UNCHANGED <<now, store, history, inflight>>
        ELSE /\ ClaimBudget(pick)
             /\ tasks' = [tasks EXCEPT ![pick] = ClaimRow(@, tasks[pick], wid, now)]
             /\ grants' = [grants EXCEPT ![pick] = @ + 1]
             /\ held' = [held EXCEPT ![pick] = Granted(wid, now)]
             /\ resp' = [OkResp EXCEPT !.task_id = pick]
             /\ UNCHANGED <<now, subs, workers, scores, finalLog, requeues, inflight>>

\* -------------------------------------------------------------- aggregator

\* The keys of by_label, in the order the dict holds them (first appearance).
RECURSIVE LabelOrder(_)
LabelOrder(ss) ==
    IF ss = <<>> THEN <<>>
    ELSE LET init == LabelOrder(SubSeq(ss, 1, Len(ss) - 1))
             l == ss[Len(ss)].label
         IN IF \E i \in 1..Len(init) : init[i] = l THEN init ELSE Append(init, l)

Bucket(ss, label) == SelectSeq(ss, LAMBDA s : s.label = label)

RECURSIVE SumConf(_)
SumConf(ss) == IF ss = <<>> THEN 0 ELSE Head(ss).confidence + SumConf(Tail(ss))

\* AvgGreater with the comparison turned round.
AvgLess(a, b) == SumConf(a) * Len(b) < SumConf(b) * Len(a)

\* avg(a) > avg(b), both non-empty
AvgGreater(a, b) == SumConf(a) * Len(b) > SumConf(b) * Len(a)

\* The loop over by_label.items(): (best_label, best_count) after the labels of order.
RECURSIVE BestFold(_, _, _, _)
BestFold(order, ss, best, bestCount) ==
    IF order = <<>> THEN best
    ELSE LET label == Head(order)
             arr == Bucket(ss, label)
         IN IF Len(arr) > bestCount
            THEN BestFold(Tail(order), ss, label, Len(arr))
            ELSE IF Len(arr) = bestCount /\ AvgGreater(arr, Bucket(ss, best))
                 THEN BestFold(Tail(order), ss, label, bestCount)
                 ELSE BestFold(Tail(order), ss, best, bestCount)

BestLabel(ss) == BestFold(LabelOrder(ss), ss, Null, -1)

\* Winners that takes every worker with a submission on the task.
WinnersEveryone(ss, label) == {ss[i].worker_id : i \in 1..Len(ss)}

\* set(winners)
Winners(ss, label) == {ss[i].worker_id : i \in {j \in 1..Len(ss) : ss[j].label = label}}

\* len(subs) >= (t.required_submissions or 3) and not t.final_label, t as it was read
ShouldFinalize(snapRow, ss) ==
    /\ Len(ss) >= OrDefault(snapRow.required_submissions, REQUIRED_SUBMISSIONS_DEFAULT)
    /\ ~Truthy(snapRow.final_label)

\* The UPDATE finalization flushes: the columns that differ from the row as read.
FinalizeRow(row, snapRow, best) ==
    [row EXCEPT
        !.final_label = IF snapRow.final_label /= best THEN best ELSE @,
        !.status = IF snapRow.status /= "finalized" THEN "finalized" ELSE @,
        !.reserved_by = IF snapRow.reserved_by /= NoWorker THEN NoWorker ELSE @,
        !.lease_expires_at = IF snapRow.lease_expires_at /= NoTime THEN NoTime ELSE @]

\* Award with `ws.points = 1` for a row that exists.
AwardOverwrite(sc, W) ==
    [x \in DOMAIN sc \cup W |-> IF x \in W THEN 1 ELSE sc[x]]

Award(sc, W) ==
    [x \in DOMAIN sc \cup W |->
        IF x \in W THEN (IF x \in DOMAIN sc THEN sc[x] + 1 ELSE 1) ELSE sc[x]]

NewSubmission(wid, label, conf) == [worker_id |-> wid, label |-> label, confidence |-> conf]

\* From the INSERT to the commit of submit_result, on the task row as it was read.
InsertAndFinalize(snapRow, wid, tid, label, conf) ==
    LET ss == Append(subs[tid], NewSubmission(wid, label, conf))
        best == BestLabel(ss)
    IN  /\ subs' = [subs EXCEPT ![tid] = ss]
        /\ IF ShouldFinalize(snapRow, ss)
           THEN /\ tasks' = [tasks EXCEPT ![tid] = FinalizeRow(@, snapRow, best)]
                /\ scores' = Award(scores, Winners(ss, best))
                /\ finalLog' = [finalLog EXCEPT ![tid] = Append(@, [label |-> best, subs |-> ss])]
           ELSE UNCHANGED <<tasks, scores, finalLog>>

\* submit_result without the test for an existing submission.
submit_result_no_dedup(wid, tid, label, conf) ==
    IF tid \notin DOMAIN tasks
    THEN /\ resp' = [OkResp EXCEPT !.code = 404]
         /\ UNCHANGED <<now, store, history, inflight>>
    ELSE /\ InsertAndFinalize(tasks[tid], wid, tid, label, conf)
         /\ resp' = OkResp
         /\ UNCHANGED <<now, workers, grants, held, requeues, inflight>>

submit_result(wid, tid, label, conf) ==
    IF tid \notin DOMAIN tasks
    THEN /\ resp' = [OkResp EXCEPT !.code = 404]
         /\ UNCHANGED <<now, store, history, inflight>>
    ELSE IF HasSubmission(subs, tid, wid)
    THEN /\ resp' = [OkResp EXCEPT !.duplicate = TRUE]
         /\ UNCHANGED <<now, store, history, inflight>>
    ELSE /\ InsertAndFinalize(tasks[tid], wid, tid, label, conf)
         /\ resp' = OkResp
         /\ UNCHANGED <<now, workers, grants, held, requeues, inflight>>

\* ------------------------------------------------------------------ reaper

LeaseExpired(row, t) == row.lease_expires_at /= NoTime /\ row.lease_expires_at <= t

\* WorkerStale that takes a worker without a row for stale.
WorkerStaleOrMissing(row, ws, t) ==
    /\ row.reserved_by /= NoWorker
    /\ \/ row.reserved_by \notin DOMAIN ws
       \/ LET w == ws[row.reserved_by]
          IN \/ w.last_seen = NoTime
             \/ w.last_seen < t - HEARTBEAT_TTL_SECONDS
             \/ w.status = "stale"

WorkerStale(row, ws, t) ==
    /\ row.reserved_by /= NoWorker
    /\ row.reserved_by \in DOMAIN ws
    /\ LET w == ws[row.reserved_by]
       IN \/ w.last_seen = NoTime
          \/ w.last_seen < t - HEARTBEAT_TTL_SECONDS
          \/ w.status = "stale"

Abandoned(row, ws, t) ==
    row.status = "assigned" /\ (LeaseExpired(row, t) \/ WorkerStale(row, ws, t))

\* RequeueRow that leaves a task with attempts to spare with its holder, for
\* one more attempt.
RequeueRowRetries(row) ==
    IF row.attempts >= OrDefault(row.max_attempts, MAX_ATTEMPTS_DEFAULT)
    THEN [row EXCEPT !.status = "failed",
                     !.error_message = IF Truthy(@) THEN @ ELSE "max attempts reached",
                     !.reserved_by = NoWorker,
                     !.lease_expires_at = NoTime]
    ELSE [row EXCEPT !.attempts = @ + 1]

\* RequeueRow with the lease left on the row.
RequeueRowKeepsLease(row) ==
    IF row.attempts >= OrDefault(row.max_attempts, MAX_ATTEMPTS_DEFAULT)
    THEN [row EXCEPT !.status = "failed",
                     !.error_message = IF Truthy(@) THEN @ ELSE "max attempts reached",
                     !.reserved_by = NoWorker]
    ELSE [row EXCEPT !.status = "queued", !.reserved_by = NoWorker]

RequeueRow(row) ==
    IF row.attempts >= OrDefault(row.max_attempts, MAX_ATTEMPTS_DEFAULT)
    THEN [row EXCEPT !.status = "failed",
                     !.error_message = IF Truthy(@) THEN @ ELSE "max attempts reached",
                     !.reserved_by = NoWorker,
                     !.lease_expires_at = NoTime]
    ELSE [row EXCEPT !.status = "queued",
                     !.reserved_by = NoWorker,
                     !.lease_expires_at = NoTime]

RequeueExpired(ts, ws, t) ==
    [x \in DOMAIN ts |-> IF Abandoned(ts[x], ws, t) THEN RequeueRow(ts[x]) ELSE ts[x]]

\* RequeueCount that counts every task the sweep looked at.
RequeueCountSeen(ts, ws, t) == Cardinality({x \in DOMAIN ts : ts[x].status = "assigned"})

RequeueCount(ts, ws, t) == Cardinality({x \in DOMAIN ts : Abandoned(ts[x], ws, t)})

\* The count of moves to queued, after a requeue that took ts to ts2.
CountRequeues(rq, ts, ts2) ==
    [x \in TaskIds |->
        IF x \in DOMAIN ts /\ ts[x].status = "assigned" /\ ts2[x].status = "queued"
        THEN rq[x] + 1 ELSE rq[x]]

\* A sweeper that marks the stale workers and requeues nothing.
sweeperMarksOnly ==
    /\ workers' = MarkStale(workers, now)
    /\ UNCHANGED <<now, tasks, subs, scores, resp, history, inflight>>

\* One iteration of the sweeper thread: _mark_stale_workers, then _requeue_expired.
sweeper ==
    /\ workers' = MarkStale(workers, now)
    /\ tasks' = RequeueExpired(tasks, workers', now)
    /\ requeues' = CountRequeues(requeues, tasks, tasks')
    /\ UNCHANGED <<now, subs, scores, resp, finalLog, grants, held, inflight>>

manual_requeue ==
    /\ tasks' = RequeueExpired(tasks, workers, now)
    /\ requeues' = CountRequeues(requeues, tasks, tasks')
    /\ resp' = [OkResp EXCEPT !.requeued = RequeueCount(tasks, workers, now)]
    /\ UNCHANGED <<now, subs, workers, scores, finalLog, grants, held, inflight>>

reset_db ==
    /\ tasks' = <<>>
    /\ subs' = [t \in TaskIds |-> <<>>]
    /\ workers' = <<>>
    /\ scores' = <<>>
    /\ finalLog' = [t \in TaskIds |-> <<>>]
    /\ grants' = [t \in TaskIds |-> 0]
    /\ held' = [t \in TaskIds |-> NoLease]
    /\ requeues' = [t \in TaskIds |-> 0]
    /\ resp' = OkResp
    /\ UNCHANGED <<now, inflight>>

\* ------------------------------------------------- every request in one step

\* The whole service on one task row: every handler, the sweeper and the clock.
Next ==
    \/ Tick
    \/ \E w \in WorkerIds : register_worker(w, Null)
    \/ \E w \in WorkerIds : heartbeat(w)
    \/ \E id \in LifecycleTaskIds, r \in RequiredInputs, m \in MaxAttemptsInputs :
          create_task(id, Null, r, m)
    \/ \E w \in WorkerIds : next_task(w)
    \/ \E w \in WorkerIds, t \in LifecycleTaskIds : submit_result(w, t, "positive", 9)
    \/ sweeper
    \/ manual_requeue
    \/ reset_db

Spec == Init /\ [][Next]_vars

\* The task registry, the dispatcher and the aggregator at one clock value, on
\* several tasks and with every label and confidence.
NextAgg ==
    \/ \E id \in TaskIds, r \in RequiredInputs : create_task(id, Null, r, 0)
    \/ \E w \in WorkerIds : next_task(w)
    \/ \E w \in WorkerIds, t \in TaskIds, l \in LabelInputs, c \in ConfInputs :
          submit_result(w, t, l, c)
    \/ reset_db

SpecAgg == Init /\ [][NextAgg]_vars

\* The aggregator alone: submissions with every label and confidence, one
\* request at a time.
NextAward ==
    \/ \E id \in TaskIds, r \in RequiredInputs : create_task(id, Null, r, 0)
    \/ \E w \in WorkerIds, t \in TaskIds, l \in LabelInputs, c \in ConfInputs :
          submit_result(w, t, l, c)

SpecAward == Init /\ [][NextAward]_vars

\* worker.py: the worker submits a result for the task it was handed.
WorkerSubmit(w) ==
    \E t \in TaskIds :
        /\ t \in DOMAIN tasks
        /\ tasks[t].status = "assigned"
        /\ tasks[t].reserved_by = w
        /\ ~HasSubmission(subs, t, w)
        /\ submit_result(w, t, "positive", 9)

\* The worker registry and the dispatcher: typed tasks, leases that run out,
\* workers that have answered, one worker that registers with or without
\* capabilities before the clock starts and one that never registers.
NextDispatch ==
    \/ now < MaxDispatchTicks * TickSeconds /\ Tick
    \/ \E c \in CapsInputs : now = 0 /\ register_worker(1, c)
    \/ \E id \in TaskIds, ty \in TypeInputs : create_task(id, ty, 0, 0)
    \/ \E w \in WorkerIds : next_task(w)
    \/ \E w \in WorkerIds : WorkerSubmit(w)

SpecDispatch == Init /\ [][NextDispatch]_vars

\* The worker registry: workers that register with and without capabilities,
\* send heartbeats, go stale and hold a task.
NextRegistry ==
    \/ Tick
    \/ \E w \in WorkerIds, c \in RegistryCapsInputs : register_worker(w, c)
    \/ \E w \in WorkerIds : heartbeat(w)
    \/ \E id \in LifecycleTaskIds : create_task(id, Null, 0, 0)
    \/ \E w \in WorkerIds : next_task(w)
    \/ sweeper

SpecRegistry == Init /\ [][NextRegistry]_vars

\* The store after register_worker(wid, caps) and then heartbeat(wid), both at
\* time t: the worker row and the tasks.
RegisterThenHeartbeat(ws, ts, wid, caps, t) ==
    [worker |-> UpsertWorker(UpsertWorker(ws, wid, caps, t), wid, Null, t)[wid],
     tasks |-> ExtendLeases(ts, wid, t)]

\* The store after heartbeat(wid) at time t.
HeartbeatAlone(ws, ts, wid, t) ==
    [worker |-> UpsertWorker(ws, wid, Null, t)[wid],
     tasks |-> ExtendLeases(ts, wid, t)]

\* ------------------------------------- requests as their store reads and writes
\* A handler reads outside any transaction (the driver opens one at the first
\* INSERT or UPDATE only) and its writes reach the store at its commit; the
\* store runs one write transaction at a time.  The response of a request is
\* kept in its slot.

Returned(r) == [pc |-> "returned", resp |-> r]

\* next_task up to the SELECT of the candidate rows.
NextRead(wid) ==
    /\ nextReqs[wid].pc \in {"idle", "returned"}
    /\ nextReqs' = [nextReqs EXCEPT ![wid] =
            [pc |-> "read", now |-> now, caps |-> WorkerCaps(workers, wid),
             snap |-> tasks, order |-> Candidates(tasks)]]
    /\ UNCHANGED <<now, store, resp, history, subReqs, reapReq>>

\* The loop over the rows read, and the UPDATE and commit of the claim.
NextClaim(wid) ==
    /\ nextReqs[wid].pc = "read"
    /\ LET r == nextReqs[wid]
           pick == PickTask(r.order, r.snap, subs, wid, r.caps, r.now)
       IN  IF pick = NoTask
           THEN /\ nextReqs' = [nextReqs EXCEPT ![wid] = Returned(OkResp)]
                /\ UNCHANGED <<tasks, grants, held>>
           ELSE /\ ClaimBudget(pick)
                /\ tasks' = [tasks EXCEPT ![pick] = ClaimRow(@, r.snap[pick], wid, r.now)]
                /\ grants' = [grants EXCEPT ![pick] = @ + 1]
                /\ held' = [held EXCEPT ![pick] = Granted(wid, r.now)]
                /\ nextReqs' = [nextReqs EXCEPT ![wid] =
                                    Returned([OkResp EXCEPT !.task_id = pick])]
    /\ UNCHANGED <<now, subs, workers, scores, resp, finalLog, requeues, subReqs, reapReq>>

\* submit_result: s.get(Task, task_id)
SubmitLoad(k, wid, tid, label, conf) ==
    /\ subReqs[k].pc \in {"idle", "returned"}
    /\ subReqs' = [subReqs EXCEPT ![k] =
            IF tid \notin DOMAIN tasks
            THEN Returned([OkResp EXCEPT !.code = 404])
            ELSE [pc |-> "loaded", worker_id |-> wid, task_id |-> tid, label |-> label,
                  confidence |-> conf, row |-> tasks[tid]]]
    /\ UNCHANGED <<now, store, resp, history, nextReqs, reapReq>>

\* submit_result: the SELECT of an existing submission of the worker.
SubmitCheck(k) ==
    /\ subReqs[k].pc = "loaded"
    /\ subReqs' = [subReqs EXCEPT ![k] =
            IF HasSubmission(subs, @.task_id, @.worker_id)
            THEN Returned([OkResp EXCEPT !.duplicate = TRUE])
            ELSE [@ EXCEPT !.pc = "checked"]]
    /\ UNCHANGED <<now, store, resp, history, nextReqs, reapReq>>

\* submit_result: from the INSERT to the commit.
SubmitCommit(k) ==
    /\ subReqs[k].pc = "checked"
    /\ LET r == subReqs[k]
       IN InsertAndFinalize(r.row, r.worker_id, r.task_id, r.label, r.confidence)
    /\ subReqs' = [subReqs EXCEPT ![k] = Returned(OkResp)]
    /\ UNCHANGED <<now, workers, resp, grants, held, requeues, nextReqs, reapReq>>

\* Interleaved next_task requests.
NextDispatchConc ==
    \/ \E id \in TaskIds : create_task(id, Null, 0, 0)
    \/ \E w \in WorkerIds : NextRead(w)
    \/ \E w \in WorkerIds : NextClaim(w)

SpecDispatchConc == Init /\ [][NextDispatchConc]_vars

\* Interleaved submit_result requests.
NextSubmitConc ==
    \/ \E id \in TaskIds, r \in RequiredInputs : create_task(id, Null, r, 0)
    \/ \E k \in SubSlots, w \in WorkerIds, t \in TaskIds : SubmitLoad(k, w, t, "positive", 9)
    \/ \E k \in SubSlots : SubmitCheck(k)
    \/ \E k \in SubSlots : SubmitCommit(k)

SpecSubmitConc == Init /\ [][NextSubmitConc]_vars

\* No next_task request is between its read and its commit.
NoneInFlight == \A w \in WorkerIds : nextReqs[w].pc /= "read"

\* Interleaved next_task requests and the sweeper; a request is over within the
\* tick it came in.
NextReapConc ==
    \/ NoneInFlight /\ Tick
    \/ \E w \in WorkerIds : register_worker(w, Null)
    \/ \E id \in LifecycleTaskIds, m \in MaxAttemptsInputs : create_task(id, Null, 0, m)
    \/ \E w \in WorkerIds : NextRead(w)
    \/ \E w \in WorkerIds : NextClaim(w)
    \/ sweeper

SpecReapConc == Init /\ [][NextReapConc]_vars

\* ----------------------------------------------- healthy workers, for ever
\* The clock seen from the present: every stored instant moves TickSeconds into
\* the past and `now` keeps its value.  The handlers compare an instant with
\* now, now - HEARTBEAT_TTL_SECONDS or another instant only, so an instant older
\* than Past is as good as Past (one task: no two created_at to tell apart).
Past == 0 - (HEARTBEAT_TTL_SECONDS + TickSeconds)

Earlier(t) ==
    IF t = NoTime THEN NoTime
    ELSE IF t - TickSeconds < Past THEN Past ELSE t - TickSeconds

Elapse ==
    /\ tasks' = [t \in DOMAIN tasks |->
                    [tasks[t] EXCEPT !.created_at = Earlier(@),
                                     !.lease_expires_at = Earlier(@)]]
    /\ workers' = [w \in DOMAIN workers |-> [workers[w] EXCEPT !.last_seen = Earlier(@)]]
    /\ held' = [t \in TaskIds |-> [held[t] EXCEPT !.until = Earlier(@)]]
    /\ UNCHANGED <<now, subs, scores, resp, finalLog, grants, requeues, inflight>>

\* Every worker has sent its heartbeat in the present tick: a healthy worker
\* sends one in every TickSeconds, more often than LEASE_SECONDS.
AllHeartbeated == \A w \in WorkerIds : w \in DOMAIN workers /\ workers[w].last_seen = now

HealthyElapse == AllHeartbeated /\ Elapse

NextLive ==
    \/ HealthyElapse
    \/ \E w \in WorkerIds : heartbeat(w)
    \/ \E id \in LifecycleTaskIds, r \in RequiredInputs, m \in MaxAttemptsInputs :
          create_task(id, Null, r, m)
    \/ \E w \in WorkerIds : next_task(w)
    \/ \E w \in WorkerIds : WorkerSubmit(w)
    \/ sweeper

\* Workers that stay healthy, ask for work and answer it for ever, a sweeper
\* that keeps sweeping and a clock that keeps advancing.
SpecLive ==
    /\ Init
    /\ [][NextLive]_vars
    /\ WF_vars(HealthyElapse)
    /\ WF_vars(sweeper)
    /\ \A w \in WorkerIds :
          WF_vars(heartbeat(w)) /\ WF_vars(next_task(w)) /\ WF_vars(WorkerSubmit(w))

\* Interleaved next_task requests and the submissions of the workers that hold
\* a task.
NextClaimConc ==
    \/ \E id \in LifecycleTaskIds, r \in RequiredInputs : create_task(id, Null, r, 0)
    \/ \E w \in WorkerIds : NextRead(w)
    \/ \E w \in WorkerIds : NextClaim(w)
    \/ \E w \in WorkerIds : WorkerSubmit(w)

SpecClaimConc == Init /\ [][NextClaimConc]_vars

\* ------------------------------------------- the sweeper, statement by statement
\* _requeue_expired reads the assigned rows and the workers outside a write
\* transaction and flushes its UPDATEs at its commit.  heartbeat flushes its
\* worker row before it SELECTs the tasks it holds (autoflush), so it holds the
\* write transaction of the store from before that SELECT to its commit and is
\* one step for every other writer.

\* ReapWrite that writes a column only where the row still holds the value read.
ReapWriteIfUntouched(row, snapRow) ==
    LET new == RequeueRow(snapRow)
    IN  [row EXCEPT
            !.status = IF @ = snapRow.status THEN new.status ELSE @,
            !.reserved_by = IF @ = snapRow.reserved_by THEN new.reserved_by ELSE @,
            !.lease_expires_at =
                IF @ = snapRow.lease_expires_at THEN new.lease_expires_at ELSE @,
            !.error_message = IF @ = snapRow.error_message THEN new.error_message ELSE @]

\* The UPDATE _requeue_expired flushes for a row it moves: the columns whose
\* value differs from the row as it was read (snapRow), written onto the row as
\* it is now (row).
ReapWrite(row, snapRow) ==
    LET new == RequeueRow(snapRow)
    IN  [row EXCEPT
            !.status = IF new.status /= snapRow.status THEN new.status ELSE @,
            !.reserved_by = IF new.reserved_by /= snapRow.reserved_by THEN new.reserved_by ELSE @,
            !.lease_expires_at =
                IF new.lease_expires_at /= snapRow.lease_expires_at
                THEN new.lease_expires_at ELSE @,
            !.error_message =
                IF new.error_message /= snapRow.error_message THEN new.error_message ELSE @]

\* The sweeper thread is between two iterations.
ReaperAsleep == reapReq.pc \in {"idle", "done"}

\* _mark_stale_workers, a transaction of its own.
SweepMark ==
    /\ ReaperAsleep
    /\ workers' = MarkStale(workers, now)
    /\ reapReq' = [pc |-> "marked"]
    /\ UNCHANGED <<now, tasks, subs, scores, resp, history, nextReqs, subReqs>>

\* _requeue_expired: now_utc() and the SELECT of the assigned rows.
ReapLoad ==
    /\ reapReq.pc = "marked"
    /\ reapReq' = [pc |-> "loaded", now |-> now,
                   rows |-> [x \in {y \in DOMAIN tasks : tasks[y].status = "assigned"}
                                |-> tasks[x]]]
    /\ UNCHANGED <<now, store, resp, history, nextReqs, subReqs>>

\* _requeue_expired: the loop over the rows read, with its s.get(Worker, ...).
ReapDecide ==
    /\ reapReq.pc = "loaded"
    /\ reapReq' = [pc |-> "decided", rows |-> reapReq.rows,
                   move |-> {x \in DOMAIN reapReq.rows :
                                Abandoned(reapReq.rows[x], workers, reapReq.now)}]
    /\ UNCHANGED <<now, store, resp, history, nextReqs, subReqs>>

\* _requeue_expired: the commit.  `extended` keeps the rows it moved whose
\* lease their holder had extended since they were read.
ReapCommit ==
    /\ reapReq.pc = "decided"
    /\ tasks' = [x \in DOMAIN tasks |->
                    IF x \in reapReq.move
                    THEN ReapWrite(tasks[x], reapReq.rows[x])
                    ELSE tasks[x]]
    /\ requeues' = CountRequeues(requeues, tasks, tasks')
    /\ reapReq' = [pc |-> "done",
                   extended |-> {x \in reapReq.move :
                        /\ tasks[x].reserved_by = reapReq.rows[x].reserved_by
                        /\ tasks[x].attempts = reapReq.rows[x].attempts
                        /\ tasks[x].lease_expires_at /= reapReq.rows[x].lease_expires_at}]
    /\ UNCHANGED <<now, subs, workers, scores, resp, finalLog, grants, held,
                   nextReqs, subReqs>>

\* Heartbeats and claims between the statements of the sweeper; an iteration
\* of the sweeper is over within the tick it began in.
NextBeatConc ==
    \/ ReaperAsleep /\ Tick
    \/ \E id \in LifecycleTaskIds, m \in MaxAttemptsInputs : create_task(id, Null, 0, m)
    \/ \E w \in WorkerIds : next_task(w)
    \/ \E w \in WorkerIds : heartbeat(w)
    \/ SweepMark
    \/ ReapLoad
    \/ ReapDecide
    \/ ReapCommit

SpecBeatConc == Init /\ [][NextBeatConc]_vars

\* ------------------------------------------------ workers that fall silent
\* No worker holds a task.
NoneHeld == \A t \in DOMAIN tasks : tasks[t].status /= "assigned"

\* Workers that register, ask for work while no task is held, and make no
\* call once they hold one; the sweeper keeps sweeping and the clock keeps
\* advancing.
NextCrash ==
    \/ Elapse
    \/ \E w \in WorkerIds : register_worker(w, Null)
    \/ \E id \in LifecycleTaskIds, m \in MaxAttemptsInputs : create_task(id, Null, 0, m)
    \/ \E w \in WorkerIds : NoneHeld /\ next_task(w)
    \/ sweeper

SpecCrash ==
    /\ Init
    /\ [][NextCrash]_vars
    /\ WF_vars(Elapse)
    /\ WF_vars(sweeper)

\* ================================================================== claims

\* ---- what the claims speak of, stated on the tables and the history alone
Terminal(t) == tasks[t].status \in {"finalized", "failed"}
Finalized(t) == tasks[t].status = "finalized"
Indices(ss) == 1..Len(ss)
Voters(ss, l) == {ss[i].worker_id : i \in {j \in Indices(ss) : ss[j].label = l}}
CountOf(ss, l) == Cardinality({i \in Indices(ss) : ss[i].label = l})
ConfSum(ss, l) ==
    SumOver([i \in Indices(ss) |-> ss[i].confidence], {i \in Indices(ss) : ss[i].label = l})
LabelsOf(ss) == {ss[i].label : i \in Indices(ss)}
\* The labels of highest count and, among those, of highest mean confidence.
PluralityLabels(ss) ==
    {l \in LabelsOf(ss) : \A m \in LabelsOf(ss) :
        \/ CountOf(ss, l) > CountOf(ss, m)
        \/ /\ CountOf(ss, l) = CountOf(ss, m)
           /\ ConfSum(ss, l) * CountOf(ss, m) >= ConfSum(ss, m) * CountOf(ss, l)}
SumPoints == SumOver(scores, DOMAIN scores)
NoEmptyLabel == \A t \in TaskIds : \A i \in Indices(subs[t]) : subs[t][i].label /= ""
\* The points the finalization steps run on task t gave worker w.
PointsFor(t, w) ==
    Cardinality({i \in Indices(finalLog[t]) : w \in Voters(finalLog[t][i].subs, finalLog[t][i].label)})
\* The points the finalization steps run on task t gave in all.
PointsOf(t) ==
    SumOver([i \in Indices(finalLog[t]) |->
                Cardinality(Voters(finalLog[t][i].subs, finalLog[t][i].label))],
            Indices(finalLog[t]))

\* C1: two next_task requests of different workers that interleave at their
\* store reads and writes never both return the same task (the clock stands
\* still, so the lease of the first is in force when the second returns).
C1_NoDoubleLease ==
    \A w1, w2 \in WorkerIds :
        (/\ w1 /= w2
         /\ nextReqs[w1].pc = "returned"
         /\ nextReqs[w2].pc = "returned"
         /\ nextReqs[w1].resp.task_id /= NoTask)
        => nextReqs[w1].resp.task_id /= nextReqs[w2].resp.task_id

\* C2: under interleaved submit_result requests of different workers (no
\* worker has two submissions on the task) a task is finalized by one request
\* only, and no worker gets more than one point for it.
C2_ScoredOnce ==
    \A t \in TaskIds :
        (\A i, j \in Indices(subs[t]) : i /= j => subs[t][i].worker_id /= subs[t][j].worker_id)
        => /\ Len(finalLog[t]) <= 1
           /\ \A w \in WorkerIds : PointsFor(t, w) <= 1

\* C3: every task has attempts <= max_attempts.
C3_AttemptsBounded ==
    \A t \in DOMAIN tasks : tasks[t].attempts <= tasks[t].max_attempts

\* C4: after any sequence of requests and sweeps, each one step, every task
\* has one of the four legal shapes.
C4_LegalShapes ==
    \A t \in DOMAIN tasks :
        LET r == tasks[t]
            leased == r.reserved_by /= NoWorker /\ r.lease_expires_at /= NoTime
            free == r.reserved_by = NoWorker /\ r.lease_expires_at = NoTime
        IN  \/ r.status = "queued" /\ free /\ r.final_label = Null
            \/ r.status = "assigned" /\ leased /\ r.final_label = Null
            \/ r.status = "finalized" /\ free /\ r.final_label /= Null
            \/ r.status = "failed" /\ free /\ r.final_label = Null

\* A task finalized after it was claimed, lost and claimed again.
C4_Witness ==
    \E t \in DOMAIN tasks : Finalized(t) /\ tasks[t].attempts >= 2

\* C5: once a task is finalized or failed, no step but a reset changes its
\* status, final_label, reserved_by, lease_expires_at or attempts.
C5_TerminalFinal ==
    [][\/ reset_db
       \/ \A t \in DOMAIN tasks :
            Terminal(t) =>
                /\ t \in DOMAIN tasks'
                /\ tasks'[t].status = tasks[t].status
                /\ tasks'[t].final_label = tasks[t].final_label
                /\ tasks'[t].reserved_by = tasks[t].reserved_by
                /\ tasks'[t].lease_expires_at = tasks[t].lease_expires_at
                /\ tasks'[t].attempts = tasks[t].attempts]_vars

C7_NeverRefires ==
    \A t \in TaskIds : Len(finalLog[t]) <= 1

\* C8 as stated, on the states where no label is empty: a finalized task has
\* required_submissions submissions or more and its final_label is the
\* plurality label of the submissions it has now.
C8_PluralityOfCurrent ==
    NoEmptyLabel =>
        \A t \in DOMAIN tasks :
            Finalized(t) =>
                /\ Len(subs[t]) >= tasks[t].required_submissions
                /\ tasks[t].final_label \in PluralityLabels(subs[t])

\* C8 as amended: a finalized task has required_submissions submissions or
\* more and its final_label is the plurality label of the submissions it had
\* at the submit that finalized it last.
C8_PluralityAtFinalization ==
    \A t \in DOMAIN tasks :
        Finalized(t) =>
            /\ Len(subs[t]) >= tasks[t].required_submissions
            /\ finalLog[t] /= <<>>
            /\ LET e == finalLog[t][Len(finalLog[t])]
               IN  /\ e.subs = SubSeq(subs[t], 1, Len(e.subs))
                   /\ e.label = tasks[t].final_label
                   /\ tasks[t].final_label \in PluralityLabels(e.subs)

\* A finalized task whose later submissions made another label the plurality.
C8_Witness ==
    /\ NoEmptyLabel
    /\ \E t \in DOMAIN tasks :
        Finalized(t) /\ tasks[t].final_label \notin PluralityLabels(subs[t])

\* C9: no two Submission rows have the same task and worker.
C9_UniqueSubmission ==
    \A t \in TaskIds : \A i, j \in Indices(subs[t]) :
        i /= j => subs[t][i].worker_id /= subs[t][j].worker_id

\* C10: a submit by a worker that has a submission on the task answers
\* duplicate=true and changes no submission, no task and no score.
C10_DuplicateIsNoOp ==
    [][\A w \in WorkerIds, t \in TaskIds, l \in LabelInputs, c \in ConfInputs :
        (/\ t \in DOMAIN tasks
         /\ \E i \in Indices(subs[t]) : subs[t][i].worker_id = w
         /\ submit_result(w, t, l, c))
        => /\ subs' = subs
           /\ tasks' = tasks
           /\ scores' = scores
           /\ resp'.code = 200
           /\ resp'.duplicate = TRUE]_vars

\* A duplicate submit was answered on a finalized task.
C10_Witness ==
    /\ resp.duplicate = TRUE
    /\ \E t \in DOMAIN tasks : Finalized(t) /\ Len(subs[t]) >= 1

\* ---- the lease a claim grants, seen from the history
\* The worker has not been in contact since the instant at.
NotSeenSince(w, at) == w \notin DOMAIN workers \/ workers[w].last_seen <= at

\* C11: while the lease next_task granted on a task runs and its holder has not
\* sent a heartbeat since the claim, no next_task of another worker returns
\* the task, whatever requests and sweeps come in between.
C11_LeaseExclusive ==
    [][\A w \in WorkerIds, t \in TaskIds :
        (/\ held[t].worker \notin {NoWorker, w}
         /\ NotSeenSince(held[t].worker, held[t].until - LEASE_SECONDS)
         /\ next_task(w)
         /\ resp'.task_id = t)
        => now >= held[t].until]_vars

\* C12: with as many healthy workers as required_submissions, each asking for
\* work and answering it for ever, a sweeper that keeps sweeping and a clock
\* that keeps advancing, every task created is finalized or failed in the end.
C12_EventuallyTerminates ==
    \A t \in LifecycleTaskIds :
        (t \in DOMAIN tasks) ~> (t \in DOMAIN tasks /\ Terminal(t))

\* ---- the dispatch rule, stated on the tables
\* The capability tags a serialized list names.
TagsOf ==
    ("[]" :> {}) @@ ("[\"text\"]" :> {"text"}) @@ ("[\"vision\",\"text\"]" :> {"vision", "text"})
\* Worker w has a capability list on record.
HasCapabilityList(w) ==
    w \in DOMAIN workers /\ workers[w].capabilities_json \in DOMAIN TagsOf
TypeSet(t) == tasks[t].type /= Null /\ tasks[t].type /= ""
Leased(t) ==
    tasks[t].status = "assigned" /\ tasks[t].lease_expires_at /= NoTime
        /\ tasks[t].lease_expires_at > now
Answered(t, w) == \E i \in Indices(subs[t]) : subs[t][i].worker_id = w
Eligible(t, w) ==
    /\ tasks[t].status \in {"queued", "assigned"}
    /\ ~Leased(t)
    /\ (TypeSet(t) /\ HasCapabilityList(w))
            => tasks[t].type \in TagsOf[workers[w].capabilities_json]
    /\ ~Answered(t, w)
Older(t, u) ==
    \/ tasks[t].created_at < tasks[u].created_at
    \/ tasks[t].created_at = tasks[u].created_at /\ t < u

\* C13: next_task of worker w claims and returns the eligible task of smallest
\* (created_at, id), and returns empty and changes no task exactly when no
\* task is eligible for w.
C13_FifoDispatch ==
    [][\A w \in WorkerIds :
        next_task(w) =>
            LET E == {t \in DOMAIN tasks : Eligible(t, w)}
            IN  IF E = {}
                THEN resp'.task_id = NoTask /\ tasks' = tasks
                ELSE \E t \in E :
                        /\ \A u \in E \ {t} : Older(t, u)
                        /\ resp'.task_id = t
                        /\ tasks' = [tasks EXCEPT ![t] =
                                [@ EXCEPT !.status = "assigned",
                                          !.reserved_by = w,
                                          !.lease_expires_at = now + LEASE_SECONDS,
                                          !.attempts = @ + 1]]]_vars

\* The last request claimed a task and passed over an older one that is queued.
C13_Witness ==
    /\ resp.task_id \in DOMAIN tasks
    /\ LET t == resp.task_id
       IN  /\ tasks[t].status = "assigned"
           /\ tasks[t].lease_expires_at = now + LEASE_SECONDS
           /\ \E u \in DOMAIN tasks :
                /\ Older(u, t)
                /\ u > t
                /\ tasks[u].status = "queued"
                /\ ~Eligible(u, tasks[t].reserved_by)

\* C14: next_task never hands a task whose type is set to a worker that has a
\* capability list on record which does not contain the type.
C14_CapabilityFilter ==
    [][\A w \in WorkerIds :
        (next_task(w) /\ resp'.task_id /= NoTask)
        => LET t == resp'.task_id
           IN  (TypeSet(t) /\ HasCapabilityList(w))
                    => tasks[t].type \in TagsOf[workers[w].capabilities_json]]_vars

\* Typed tasks are held by a worker that never registered and by one that
\* registered without capabilities.
C14_Witness ==
    \E t, u \in DOMAIN tasks :
        /\ TypeSet(t) /\ TypeSet(u)
        /\ tasks[t].status = "assigned" /\ tasks[t].reserved_by \notin DOMAIN workers
        /\ tasks[u].status = "assigned" /\ tasks[u].reserved_by \in DOMAIN workers
        /\ workers[tasks[u].reserved_by].capabilities_json = Null

\* C15: heartbeat of worker w sets lease_expires_at to now + LEASE_SECONDS on
\* every task that is assigned and reserved by w, expired lease or not, and
\* leaves every other field and every other task as they were.
C15_HeartbeatFrame ==
    [][\A w \in WorkerIds :
        heartbeat(w) =>
            /\ DOMAIN tasks' = DOMAIN tasks
            /\ \A t \in DOMAIN tasks :
                IF tasks[t].status = "assigned" /\ tasks[t].reserved_by = w
                THEN tasks'[t] = [tasks[t] EXCEPT !.lease_expires_at = now + LEASE_SECONDS]
                ELSE tasks'[t] = tasks[t]]_vars

\* A heartbeat has renewed a lease that had run out and had not been reaped.
C15_Witness ==
    \E t \in DOMAIN tasks :
        /\ tasks[t].status = "assigned"
        /\ tasks[t].reserved_by = held[t].worker
        /\ held[t].until <= now
        /\ tasks[t].lease_expires_at = now + LEASE_SECONDS
        /\ tasks[t].reserved_by \in DOMAIN workers
        /\ workers[tasks[t].reserved_by].last_seen = now

\* C16: a second sweep run right after a sweep, at the same clock value,
\* marks no worker, moves no task and counts zero tasks.
C16_SweepIdempotent ==
    [][sweeper =>
        /\ MarkStale(workers', now') = workers'
        /\ RequeueExpired(tasks', workers', now') = tasks'
        /\ RequeueCount(tasks', workers', now') = 0]_vars

\* A sweep has marked a worker stale and has moved a task back to queued.
C16_Witness ==
    /\ \E w \in DOMAIN workers : workers[w].status = "stale"
    /\ \E t \in DOMAIN tasks :
        /\ requeues[t] >= 1
        /\ tasks[t].status = "queued"
        /\ tasks[t].attempts >= 1

\* C17 as stated: for every worker and every capabilities argument, register
\* followed by heartbeat leaves the worker row and the tasks that heartbeat
\* alone leaves at the same clock value.
C17_AutoRegistration ==
    \A w \in WorkerIds, c \in CapsInputs :
        RegisterThenHeartbeat(workers, tasks, w, c, now) = HeartbeatAlone(workers, tasks, w, now)

\* C17 as amended: register without capabilities followed by heartbeat leaves
\* what heartbeat alone leaves; register with capabilities followed by
\* heartbeat leaves the same but for capabilities, which are those registered.
C17_AutoRegistrationButCapabilities ==
    \A w \in WorkerIds, c \in CapsInputs :
        LET both == RegisterThenHeartbeat(workers, tasks, w, c, now)
            alone == HeartbeatAlone(workers, tasks, w, now)
        IN  /\ both.tasks = alone.tasks
            /\ both.worker.status = alone.worker.status
            /\ both.worker.last_seen = alone.worker.last_seen
            /\ both.worker.capabilities_json =
                    IF c = Null THEN alone.worker.capabilities_json ELSE c

\* A worker with capabilities on record, not seen of late, that holds a task
\* whose lease ran out, and a worker with no row: the two cases of the upsert,
\* and a lease for the heartbeat to renew.
C17_Witness ==
    /\ \E w \in WorkerIds : w \notin DOMAIN workers
    /\ \E w \in DOMAIN workers, t \in DOMAIN tasks :
        /\ workers[w].last_seen < now
        /\ workers[w].capabilities_json /= Null
        /\ tasks[t].status = "assigned"
        /\ tasks[t].reserved_by = w
        /\ tasks[t].lease_expires_at <= now

\* C18: over any execution, interleaved requests and sweeps included, a task
\* moves from assigned back to queued max_attempts - 1 times at most.
C18_BoundedOscillation ==
    \A t \in DOMAIN tasks : requeues[t] <= tasks[t].max_attempts - 1

\* ---- the requeue rule, stated on the tables
\* The worker that reserved task t has a row and is stale.
StaleHolder(t) ==
    /\ tasks[t].reserved_by \in DOMAIN workers
    /\ LET w == workers[tasks[t].reserved_by]
       IN  w.status = "stale" \/ w.last_seen = NoTime
            \/ w.last_seen < now - HEARTBEAT_TTL_SECONDS
\* A sweep moves task t.
Moved(t) ==
    /\ tasks[t].status = "assigned"
    /\ ~(tasks[t].lease_expires_at > now /\ ~StaleHolder(t))
\* The row of task t after a sweep moved it.
MovedRow(t) ==
    IF tasks[t].attempts >= tasks[t].max_attempts
    THEN [tasks[t] EXCEPT
            !.status = "failed",
            !.error_message = IF @ \in {Null, ""} THEN "max attempts reached" ELSE @,
            !.reserved_by = NoWorker,
            !.lease_expires_at = NoTime]
    ELSE [tasks[t] EXCEPT
            !.status = "queued",
            !.reserved_by = NoWorker,
            !.lease_expires_at = NoTime]

\* C19: a sweep leaves an assigned task alone when its lease has not run out
\* and its worker is not stale, and else moves it to failed (attempts >=
\* max_attempts, with the error message) or to queued (attempts < max_attempts),
\* clearing reserved_by and lease_expires_at; manual requeue returns the number
\* of tasks moved.
C19_RequeueRule ==
    [][(sweeper \/ manual_requeue) =>
        /\ DOMAIN tasks' = DOMAIN tasks
        /\ \A t \in DOMAIN tasks :
            tasks'[t] = IF Moved(t) THEN MovedRow(t) ELSE tasks[t]
        /\ manual_requeue =>
            resp'.requeued = Cardinality({t \in DOMAIN tasks : Moved(t)})]_vars

\* The last request was a manual requeue that moved a task, and a task is
\* failed with the message of the sweep.
C19_Witness ==
    /\ resp.requeued >= 1
    /\ \E t \in DOMAIN tasks :
        /\ tasks[t].status = "failed"
        /\ tasks[t].error_message = "max attempts reached"
        /\ tasks[t].reserved_by = NoWorker

C21_AttemptsCountClaims ==
    \A t \in DOMAIN tasks : tasks[t].attempts = grants[t]

\* Registered worker w holds task t.
HeldBy(t, w) ==
    /\ t \in DOMAIN tasks
    /\ w \in DOMAIN workers
    /\ tasks[t].status = "assigned"
    /\ tasks[t].reserved_by = w

\* Task t has the given status and no holder.
Released(t, status) ==
    /\ t \in DOMAIN tasks
    /\ tasks[t].status = status
    /\ tasks[t].reserved_by = NoWorker

C23_ReapedWithoutLease ==
    \A t \in DOMAIN tasks :
        tasks[t].status \in {"queued", "failed"} => tasks[t].lease_expires_at = NoTime

\* A sweep has just moved a task whose holder extended the lease after the
\* sweep had read the row.
C23_Witness ==
    /\ reapReq.pc = "done"
    /\ \E t \in reapReq.extended :
        /\ tasks[t].status \in {"queued", "failed"}
        /\ tasks[t].reserved_by = NoWorker

\* C24: whatever a next_task request that read the task before commits after
\* the submission that finalized it, a task with a final_label has the status
\* finalized.
C24_FinalizedStaysFinalized ==
    \A t \in DOMAIN tasks :
        tasks[t].final_label /= Null => tasks[t].status = "finalized"

\* The points of worker w in the score table sc; 0 without a row.
Points(sc, w) == IF w \in DOMAIN sc THEN sc[w] ELSE 0

\* C25: the submit that finalizes a task sets final_label to a label of
\* highest count and, among those, of highest mean confidence; it gives one
\* point to every worker with a submission of that label on the task, with a
\* new row of 1 point for a worker without one, and leaves the points of
\* every other worker alone.
C25_FinalizingSubmit ==
    [][\A t \in TaskIds :
        (t \in DOMAIN tasks /\ Len(finalLog'[t]) = Len(finalLog[t]) + 1) =>
            LET label == tasks'[t].final_label
                winners == Voters(subs'[t], label)
            IN  /\ tasks'[t].status = "finalized"
                /\ Len(subs'[t]) = Len(subs[t]) + 1
                /\ label \in PluralityLabels(subs'[t])
                /\ DOMAIN scores' = DOMAIN scores \cup winners
                /\ \A w \in WorkerIds :
                     Points(scores', w) =
                        Points(scores, w) + (IF w \in winners THEN 1 ELSE 0)
      ]_vars

\* A task finalized on a tie in the count that the mean confidence broke, for
\* a winner that had points.
C25_Witness ==
    \E t \in DOMAIN tasks :
        /\ Finalized(t)
        /\ Len(finalLog[t]) = 1
        /\ Len(subs[t]) = 2
        /\ finalLog[t][1].subs = subs[t]
        /\ Cardinality(LabelsOf(subs[t])) = 2
        /\ subs[t][1].confidence /= subs[t][2].confidence
        /\ \E w \in Voters(subs[t], tasks[t].final_label) : Points(scores, w) = 2
        /\ \E w \in WorkerIds : w \notin DOMAIN scores

=============================================================================
